---- MODULE Spec2Model ----
(***************************************************************************)
(* Model of the two document processors of the repository:                *)
(*   src/meriwether-invoice-processor.py   (invoice family)                *)
(*   src/northwest-receipt-processor.py    (receipt family)                *)
(* A string is a sequence of one-character strings, so that stripping,     *)
(* lower-casing, substring search, regular-expression search, comma        *)
(* removal and sanitisation are computed character by character.           *)
(***************************************************************************)
EXTENDS Integers, Sequences, FiniteSets, TLC

(* ------------------------------ characters ----------------------------- *)

Digits == <<"0","1","2","3","4","5","6","7","8","9">>
Uppers == <<"A","B","C","D","E","F","G","H","I","J","K","L","M","N","O","P","Q","R","S","T","U","V","W","X","Y","Z">>
Lowers == <<"a","b","c","d","e","f","g","h","i","j","k","l","m","n","o","p","q","r","s","t","u","v","w","x","y","z">>

Range(s) == { s[i] : i \in DOMAIN s }

DigitSet == Range(Digits)
UpperSet == Range(Uppers)
LowerSet == Range(Lowers)
AlnumSet == DigitSet \cup UpperSet \cup LowerSet
\* \w of the re module
WordSet == AlnumSet \cup {"_"}
\* \s of the re module, as far as the documents use it
SpaceSet == {" ", "\n", "\t"}

LowerMap == [c \in UpperSet |-> Lowers[CHOOSE i \in 1..Len(Uppers) : Uppers[i] = c]]
UpperMap == [c \in LowerSet |-> Uppers[CHOOSE i \in 1..Len(Lowers) : Lowers[i] = c]]
DigitVal == [c \in DigitSet |-> (CHOOSE i \in 1..Len(Digits) : Digits[i] = c) - 1]

LowerChar(c) == IF c \in UpperSet THEN LowerMap[c] ELSE c
UpperChar(c) == IF c \in LowerSet THEN UpperMap[c] ELSE c

(* ------------------------------- str methods --------------------------- *)

\* the absent value (Python None)
None == << "None" >>
\* markers of a raised exception, where a function returns them
ValueError == << "ValueError" >>
ParserError == << "ParserError" >>
IndexError == << "IndexError" >>
\* the value of `error` while nothing was raised
NoError == "no error"

\* str.lower
lower(s) == [i \in 1..Len(s) |-> LowerChar(s[i])]
\* str.upper
upper(s) == [i \in 1..Len(s) |-> UpperChar(s[i])]

\* str.strip
strip(s) ==
  LET keep == { i \in 1..Len(s) : s[i] \notin SpaceSet }
  IN IF keep = {} THEN << >>
     ELSE SubSeq(s, CHOOSE a \in keep : \A b \in keep : a <= b,
                    CHOOSE a \in keep : \A b \in keep : a >= b)

\* str.startswith
startswith(s, p) == Len(s) >= Len(p) /\ SubSeq(s, 1, Len(p)) = p

\* the `in` operator on strings
contains(s, key) ==
  \E i \in 1..(Len(s) - Len(key) + 1) : SubSeq(s, i, i + Len(key) - 1) = key

\* str.replace(old, new) for a one-character `old`
replace(s, old, new) == [i \in 1..Len(s) |-> IF s[i] = old THEN new ELSE s[i]]

\* str.split()[0] of a string that holds a non-space character;
\* IndexError when str.split() is empty.
SplitFirst(s) ==
  LET t == strip(s)
      stops == { i \in 1..Len(t) : t[i] \in SpaceSet }
  IN IF t = << >> THEN IndexError
     ELSE IF stops = {} THEN t
     ELSE SubSeq(t, 1, (CHOOSE a \in stops : \A b \in stops : a <= b) - 1)

RECURSIVE Join(_, _)
\* sep.join(parts)
Join(parts, sep) ==
  IF parts = << >> THEN << >>
  ELSE IF Len(parts) = 1 THEN parts[1]
  ELSE parts[1] \o sep \o Join(Tail(parts), sep)

\* text.splitlines() of a text joined with "\n"
RECURSIVE splitlines(_)
splitlines(t) ==
  LET nl == { i \in 1..Len(t) : t[i] = "\n" }
  IN IF t = << >> THEN << >>
     ELSE IF nl = {} THEN << t >>
     ELSE LET k == CHOOSE a \in nl : \A b \in nl : a <= b
          IN << SubSeq(t, 1, k - 1) >> \o splitlines(SubSeq(t, k + 1, Len(t)))

\* [ln.strip() for ln in text.splitlines() if ln.strip()]
StrippedLines(t) ==
  LET raw == splitlines(t)
      str == [i \in 1..Len(raw) |-> strip(raw[i])]
  IN SelectSeq(str, LAMBDA ln : ln # << >>)

(* --------------------------- regular expressions ----------------------- *)
(* A pattern is a sequence of items and the item range of its one group.   *)
(* An item is a character set with a repetition range (hi = -1: no upper   *)
(* limit), a literal text under re.IGNORECASE, a word boundary \b, or the  *)
(* end anchor $.  Matching is the                                          *)
(* leftmost, greedy, backtracking matching of Python's re module.          *)

Ch(set) == [kind |-> "set", set |-> set, lo |-> 1, hi |-> 1]
Rep(set, lo, hi) == [kind |-> "set", set |-> set, lo |-> lo, hi |-> hi]
Star(set) == Rep(set, 0, -1)
Plus(set) == Rep(set, 1, -1)
Opt(set) == Rep(set, 0, 1)
Wb == [kind |-> "wb", set |-> {}, lo |-> 0, hi |-> 0]
Eos == [kind |-> "eos", set |-> {}, lo |-> 0, hi |-> 0]
\* a literal text under re.IGNORECASE, as one item
LitI(s) == << [kind |-> "lit", set |-> {}, lo |-> 0, hi |-> 0, text |-> lower(s)] >>

IsWordAt(text, p) == p >= 1 /\ p <= Len(text) /\ text[p] \in WordSet
AtBoundary(text, p) == IsWordAt(text, p - 1) # IsWordAt(text, p)

\* how many characters of `set` follow from position p, at most hi
RunLen(text, p, set, hi) ==
  LET rest == Len(text) - p + 1
      lim == IF hi < 0 \/ rest < hi THEN rest ELSE hi
      other == { n \in 0..(lim - 1) : text[p + n] \notin set }
  IN IF other = {} THEN (IF lim < 0 THEN 0 ELSE lim)
     ELSE CHOOSE a \in other : \A b \in other : a <= b

RECURSIVE MatchFrom(_, _, _, _)
RECURSIVE TryCounts(_, _, _, _, _)
\* the start position of every item from item k on, then the end of the
\* match; << >> when items k.. do not match at p
MatchFrom(items, k, text, p) ==
  IF k > Len(items) THEN << p >>
  ELSE IF items[k].kind = "wb"
       THEN IF AtBoundary(text, p)
            THEN LET r == MatchFrom(items, k + 1, text, p)
                 IN IF r = << >> THEN << >> ELSE << p >> \o r
            ELSE << >>
  ELSE IF items[k].kind = "lit"
       THEN LET n == Len(items[k].text)
            IN IF p + n - 1 <= Len(text) /\ lower(SubSeq(text, p, p + n - 1)) = items[k].text
               THEN LET r == MatchFrom(items, k + 1, text, p + n)
                    IN IF r = << >> THEN << >> ELSE << p >> \o r
               ELSE << >>
  ELSE IF items[k].kind = "eos"
       THEN IF p = Len(text) + 1
            THEN LET r == MatchFrom(items, k + 1, text, p)
                 IN IF r = << >> THEN << >> ELSE << p >> \o r
            ELSE << >>
  ELSE LET n == RunLen(text, p, items[k].set, items[k].hi)
       IN IF n < items[k].lo THEN << >> ELSE TryCounts(items, k, text, p, n)

\* the longest run first, then shorter ones
TryCounts(items, k, text, p, j) ==
  LET r == MatchFrom(items, k + 1, text, p + j)
  IN IF r # << >> THEN << p >> \o r
     ELSE IF j = items[k].lo THEN << >>
     ELSE TryCounts(items, k, text, p, j - 1)

NoMatch == [found |-> FALSE, group |-> << >>, start |-> 0, end |-> 0]

\* the match object: m.group(1), m.start(), m.end()
MatchResult(pat, text, r) ==
  [found |-> TRUE, group |-> SubSeq(text, r[pat.g[1]], r[pat.g[2] + 1] - 1),
   start |-> r[1], end |-> r[Len(r)]]

\* re.match
ReMatch(pat, text) ==
  LET r == MatchFrom(pat.items, 1, text, 1)
  IN IF r = << >> THEN NoMatch ELSE MatchResult(pat, text, r)

\* re.search: the match at the leftmost position that has one
ReSearch(pat, text) ==
  LET at == { s \in 1..(Len(text) + 1) : MatchFrom(pat.items, 1, text, s) # << >> }
  IN IF at = {} THEN NoMatch
     ELSE MatchResult(pat, text,
                      MatchFrom(pat.items, 1, text, CHOOSE a \in at : \A b \in at : a <= b))

(* --------------------------------- dates ------------------------------- *)

RECURSIVE ToInt(_)
\* int() of a digit string
ToInt(ds) == IF ds = << >> THEN 0
             ELSE 10 * ToInt(SubSeq(ds, 1, Len(ds) - 1)) + DigitVal[ds[Len(ds)]]

IsLeap(y) == (y % 4 = 0 /\ y % 100 # 0) \/ y % 400 = 0
DaysIn(m, y) == IF m = 2 THEN (IF IsLeap(y) THEN 29 ELSE 28)
                ELSE IF m \in {4, 6, 9, 11} THEN 30 ELSE 31

\* a calendar date (datetime at midnight)
Date(y, m, d) == << y, m, d >>

\* the three "/"-separated fields of a token of shape \d{1,2}/\d{1,2}/\d{4}
SlashFields(tok) ==
  LET sl == { i \in 1..Len(tok) : tok[i] = "/" }
      a == CHOOSE x \in sl : \A y \in sl : x <= y
      b == CHOOSE x \in sl : \A y \in sl : x >= y
  IN << ToInt(SubSeq(tok, 1, a - 1)), ToInt(SubSeq(tok, a + 1, b - 1)),
        ToInt(SubSeq(tok, b + 1, Len(tok))) >>

\* datetime.strptime(tok, "%m/%d/%Y"): a date, or ValueError
strptime(tok) ==
  LET f == SlashFields(tok)
  IN IF f[1] >= 1 /\ f[1] <= 12 /\ f[3] >= 1 /\ f[2] >= 1 /\ f[2] <= DaysIn(f[1], f[3])
     THEN Date(f[3], f[1], f[2])
     ELSE ValueError

Pad(n, w) == [i \in 1..w |-> Digits[((n \div (10 ^ (w - i))) % 10) + 1]]

\* dt.strftime("%Y-%m-%d")
strftime(dt) == Pad(dt[1], 4) \o <<"-">> \o Pad(dt[2], 2) \o <<"-">> \o Pad(dt[3], 2)

(* --------------------------------- paths ------------------------------- *)

LastIndex(s, c) ==
  LET at == { i \in 1..Len(s) : s[i] = c }
  IN IF at = {} THEN 0 ELSE CHOOSE a \in at : \A b \in at : a >= b

\* os.path.basename
basename(p) == SubSeq(p, LastIndex(p, "/") + 1, Len(p))

RECURSIVE rstrip_slash(_)
rstrip_slash(s) ==
  IF s # << >> /\ s[Len(s)] = "/" THEN rstrip_slash(SubSeq(s, 1, Len(s) - 1)) ELSE s

\* os.path.dirname
dirname(p) ==
  LET head == SubSeq(p, 1, LastIndex(p, "/"))
  IN IF head # << >> /\ \E i \in 1..Len(head) : head[i] # "/"
     THEN rstrip_slash(head) ELSE head

\* os.path.splitext of a name without directory part: <<root, ext>>; the
\* extension starts at the last dot unless only dots come before it
splitext(name) ==
  LET dot == LastIndex(name, ".")
  IN IF dot > 0 /\ \E i \in 1..(dot - 1) : name[i] # "."
     THEN << SubSeq(name, 1, dot - 1), SubSeq(name, dot, Len(name)) >>
     ELSE << name, << >> >>

\* os.path.join(folder, name)
join(folder, name) ==
  IF name # << >> /\ name[1] = "/" THEN name
  ELSE IF folder = << >> \/ folder[Len(folder)] = "/" THEN folder \o name
  ELSE folder \o <<"/">> \o name

(* ===================== meriwether-invoice-processor.py ================= *)

\* COMPANY_NORMALIZATION, in declaration order
COMPANY_NORMALIZATION ==
  << [key |-> <<"m","e","r","i","w","e","t","h","e","r"," ","p","e","s","t"," ","&"," ","w","i","l","d","l","i","f","e">>, short |-> <<"M","e","r","i","w","e","t","h","e","r">>],
     [key |-> <<"m","e","r","i","w","e","t","h","e","r"," ","p","e","s","t">>, short |-> <<"M","e","r","i","w","e","t","h","e","r">>],
     [key |-> <<"m","e","r","i","w","e","t","h","e","r">>, short |-> <<"M","e","r","i","w","e","t","h","e","r">>] >>

Unknown == <<"U","n","k","n","o","w","n">>

\* normalize_company_name without name.lower()
normalize_company_name_nolower(name) ==
  LET hits == { i \in 1..Len(COMPANY_NORMALIZATION) :
                  contains(name, COMPANY_NORMALIZATION[i].key) }
  IN IF name = None \/ name = << >> THEN Unknown
     ELSE IF hits # {}
          THEN COMPANY_NORMALIZATION[CHOOSE a \in hits : \A b \in hits : a <= b].short
     ELSE SplitFirst(name)

\* normalize_company_name: "Unknown" for no name, else the short name of the
\* first key found in the lower-cased name, else name.strip().split()[0]
normalize_company_name(name) ==
  LET hits == { i \in 1..Len(COMPANY_NORMALIZATION) :
                  contains(lower(name), COMPANY_NORMALIZATION[i].key) }
  IN IF name = None \/ name = << >> THEN Unknown
     ELSE IF hits # {}
          THEN COMPANY_NORMALIZATION[CHOOSE a \in hits : \A b \in hits : a <= b].short
     ELSE SplitFirst(name)

\* the group is items a..b of the pattern
Pat(items, a, b) == [items |-> items, g |-> << a, b >>]

NumDateItems ==
  << Rep(DigitSet, 1, 2), Ch({"/"}), Rep(DigitSet, 1, 2), Ch({"/"}), Rep(DigitSet, 4, 4) >>

\* r"\s{2,}"
TwoSpaces == Pat(<< Rep(SpaceSet, 2, -1) >>, 1, 1)
\* r"\bDATE\s+(\d{1,2}/\d{1,2}/\d{4})", re.IGNORECASE
InvoiceDatePat == Pat(<< Wb >> \o LitI(<<"D","A","T","E">>) \o << Plus(SpaceSet) >> \o NumDateItems, 4, 8)
\* r"INVOICE\s*#\s*([A-Za-z0-9\-]+)", re.IGNORECASE
InvoiceNumberPat ==
  Pat(LitI(<<"I","N","V","O","I","C","E">>) \o << Star(SpaceSet), Ch({"#"}), Star(SpaceSet),
                              Plus(AlnumSet \cup {"-"}) >>, 5, 5)
\* r"#\s*([0-9]{4,})"
BareNumberPat == Pat(<< Ch({"#"}), Star(SpaceSet), Rep(DigitSet, 4, -1) >>, 3, 3)
\* r"Subtotal\s+\$?([0-9,]+\.\d{2})", re.IGNORECASE
SubtotalPat ==
  Pat(LitI(<<"S","u","b","t","o","t","a","l">>) \o << Plus(SpaceSet), Opt({"$"}), Plus(DigitSet \cup {","}),
                               Ch({"."}), Rep(DigitSet, 2, 2) >>, 4, 6)

(* dateutil's parser.parse(chunk, fuzzy=True), for the chunk shapes the     *)
(* documents below hold: a numeric a/b/yyyy date or a "<Month> d, yyyy"     *)
(* date, each possibly next to other words, gives that date; a chunk with  *)
(* no complete date raises.  (dateutil fills a lone day or year number     *)
(* from today's date; no line of the documents below has that shape.)      *)
MonthNames ==
  << <<"j","a","n","u","a","r","y">>, <<"f","e","b","r","u","a","r","y">>, <<"m","a","r","c","h">>, <<"a","p","r","i","l">>, <<"m","a","y">>, <<"j","u","n","e">>, <<"j","u","l","y">>,
     <<"a","u","g","u","s","t">>, <<"s","e","p","t","e","m","b","e","r">>, <<"o","c","t","o","b","e","r">>, <<"n","o","v","e","m","b","e","r">>, <<"d","e","c","e","m","b","e","r">> >>

MonthItems ==
  << Plus(UpperSet \cup LowerSet), Plus(SpaceSet), Rep(DigitSet, 1, 2), Opt({","}),
     Plus(SpaceSet), Rep(DigitSet, 4, 4) >>

MonthOf(word) ==
  LET hit == { i \in 1..Len(MonthNames) :
                 lower(word) = MonthNames[i] \/ lower(word) = SubSeq(MonthNames[i], 1, 3) }
  IN IF hit = {} THEN 0 ELSE CHOOSE i \in hit : TRUE

ValidDate(y, m, d) == y >= 1 /\ y <= 9999 /\ m >= 1 /\ m <= 12 /\ d >= 1 /\ d <= DaysIn(m, y)

dateparser_parse(chunk) ==
  LET num == ReSearch(Pat(NumDateItems, 1, 5), chunk)
      f == SlashFields(num.group)
      mw == ReSearch(Pat(MonthItems, 1, 1), chunk)
      md == ReSearch(Pat(MonthItems, 3, 3), chunk)
      my == ReSearch(Pat(MonthItems, 6, 6), chunk)
  IN IF num.found
     THEN \* month first; day first when the first field cannot be a month
          IF f[1] <= 12 /\ ValidDate(f[3], f[1], f[2])
          THEN Date(f[3], f[1], f[2])
          ELSE IF f[1] > 12 /\ ValidDate(f[3], f[2], f[1])
          THEN Date(f[3], f[2], f[1])
          ELSE ParserError
     ELSE IF mw.found /\ MonthOf(mw.group) > 0
             /\ ValidDate(ToInt(my.group), MonthOf(mw.group), ToInt(md.group))
     THEN Date(ToInt(my.group), MonthOf(mw.group), ToInt(md.group))
     ELSE ParserError

IsDate(v) == v \notin {None, ParserError, ValueError}

\* re.split(r"\s{2,}", next_line)[0]
first_part(next_line) ==
  LET m == ReSearch(TwoSpaces, next_line)
  IN IF m.found THEN SubSeq(next_line, 1, m.start - 1) ELSE next_line

\* cand.upper().startswith(("ACCOUNT #", "PO #", "DATE"))
IsMetadataLabel(cand) ==
  \/ startswith(upper(cand), <<"A","C","C","O","U","N","T"," ","#">>)
  \/ startswith(upper(cand), <<"P","O"," ","#">>)
  \/ startswith(upper(cand), <<"D","A","T","E">>)

(* Everything extract_invoice_fields computes from one line of `lines`.    *)
LineFacts(ln) ==
  [ line |-> ln,
    anchor |-> startswith(upper(ln), <<"I","N","V","O","I","C","E">>),
    label |-> IsMetadataLabel(strip(ln)),
    service |-> contains(ln, <<"S","e","r","v","i","c","e"," ","D","a","t","e">>),
    parsed |-> dateparser_parse(first_part(ln)),
    date_m |-> ReSearch(InvoiceDatePat, ln),
    inv_m |-> ReSearch(InvoiceNumberPat, ln),
    num_m |-> ReSearch(BareNumberPat, ln),
    amt_m |-> ReSearch(SubtotalPat, ln) ]

Least(S) == CHOOSE a \in S : \A b \in S : a <= b
Greatest(S) == CHOOSE a \in S : \A b \in S : a >= b

\* 1) company name: the nearest line above the first INVOICE line that is
\*    no metadata label; without one, the first line
find_company_name(lines) ==
  LET anchors == { i \in 1..Len(lines) : lines[i].anchor }
      cands == IF anchors = {} THEN {}
               ELSE { j \in 1..(Least(anchors) - 1) : ~lines[j].label }
  IN IF cands # {} THEN strip(lines[Greatest(cands)].line)
     ELSE IF lines # << >> THEN lines[1].line
     ELSE None

\* 2) service date, first strategy: the line after the first "Service Date"
\*    line, parsed fuzzily; a parser exception is swallowed
lookahead_date(lines) ==
  LET sd == { i \in 1..Len(lines) : lines[i].service }
  IN IF sd # {} /\ Least(sd) + 1 <= Len(lines)
     THEN (IF IsDate(lines[Least(sd) + 1].parsed) THEN lines[Least(sd) + 1].parsed ELSE None)
     ELSE None

\* 2) service date, second strategy: the first line matching DATE mm/dd/yyyy,
\*    parsed strictly; strptime's ValueError is not caught
\* labelled_date taking the last matching line
labelled_date_last(lines) ==
  LET hits == { i \in 1..Len(lines) : lines[i].date_m.found }
  IN IF hits = {} THEN None ELSE strptime(lines[Greatest(hits)].date_m.group)

labelled_date(lines) ==
  LET hits == { i \in 1..Len(lines) : lines[i].date_m.found }
  IN IF hits = {} THEN None ELSE strptime(lines[Least(hits)].date_m.group)

find_service_date(lines) ==
  IF lookahead_date(lines) # None THEN lookahead_date(lines) ELSE labelled_date(lines)

\* 3) invoice number
find_invoice_number(lines) ==
  LET hits == { i \in 1..Len(lines) : lines[i].inv_m.found }
      soft == { i \in 1..Len(lines) : lines[i].num_m.found }
  IN IF hits # {} THEN lines[Least(hits)].inv_m.group
     ELSE IF soft # {} THEN lines[Least(soft)].num_m.group
     ELSE None

\* 4) amount
find_amount(lines) ==
  LET hits == { i \in 1..Len(lines) : lines[i].amt_m.found }
  IN IF hits # {} THEN lines[Least(hits)].amt_m.group ELSE None

SERVICE_DATE_ERROR == "Could not find service date"
STRPTIME_ERROR == "time data does not match format '%m/%d/%Y'"

\* extract_invoice_fields on the stripped non-blank lines: the returned
\* dict, or the ValueError raised
extract_invoice_fields(lines) ==
  LET service_date == find_service_date(lines)
  IN IF service_date = None THEN [error |-> SERVICE_DATE_ERROR]
     ELSE IF service_date = ValueError THEN [error |-> STRPTIME_ERROR]
     ELSE [ error |-> NoError,
            company_name |-> find_company_name(lines),
            service_date |-> service_date,
            invoice_number |-> find_invoice_number(lines),
            amount |-> find_amount(lines) ]

\* sanitize_for_filename without the replacement of "/"
sanitize_for_filename_strip_only(s) == strip(s)

\* s.strip().replace("/", "-")
sanitize_for_filename(s) == replace(strip(s), "/", "-")

\* build_new_filename with inv_part always f"Invoice #{invoice_number}"
build_new_filename_always_invoice(original_path, service_date, short_company, invoice_number) ==
  LET ext == splitext(basename(original_path))[2]
  IN strftime(service_date) \o <<"-">> \o sanitize_for_filename(short_company)
       \o <<"-">> \o <<"I","n","v","o","i","c","e"," ","#">> \o invoice_number \o ext

\* f"{date_prefix}-{short_company}-{inv_part}{ext}"
build_new_filename(original_path, service_date, short_company, invoice_number) ==
  LET base == splitext(basename(original_path))[1]
      ext == splitext(basename(original_path))[2]
      inv_part == IF invoice_number # << >> THEN <<"I","n","v","o","i","c","e"," ","#">> \o invoice_number ELSE base
  IN strftime(service_date) \o <<"-">> \o sanitize_for_filename(short_company)
       \o <<"-">> \o inv_part \o ext

(* ===================== northwest-receipt-processor.py ================== *)

AmountTail ==
  << Star(SpaceSet), Opt({"$"}), Plus(DigitSet \cup {","}), Ch({"."}), Rep(DigitSet, 2, 2) >>

\* a label followed by r"\s*\$?([\d,]+\.\d{2})", re.IGNORECASE
AmountPat(label) == Pat(LitI(label) \o AmountTail, 4, 6)

\* `patterns` of extract_amount, in order
AMOUNT_LABELS == << <<"P","A","Y","M","E","N","T"," ","A","M","O","U","N","T">>, <<"A","M","O","U","N","T">>, <<"T","O","T","A","L">> >>

AMOUNT_ERROR == "Could not find payment amount in receipt text."
DATE_ERROR == "Could not find date in receipt text."
FILE_ERROR == "File not found"

\* m.group(1).replace(",", "")
remove_commas(s) == SelectSeq(s, LAMBDA c : c # ",")

\* extract_amount returning None where it should raise
extract_amount_or_none(text) ==
  LET hits == { i \in 1..Len(AMOUNT_LABELS) : ReSearch(AmountPat(AMOUNT_LABELS[i]), text).found }
  IN IF hits = {} THEN None
     ELSE remove_commas(ReSearch(AmountPat(AMOUNT_LABELS[Least(hits)]), text).group)

\* extract_amount: the amount, or ValueError (AMOUNT_ERROR)
extract_amount(text) ==
  LET hits == { i \in 1..Len(AMOUNT_LABELS) : ReSearch(AmountPat(AMOUNT_LABELS[i]), text).found }
  IN IF hits = {} THEN ValueError
     ELSE remove_commas(ReSearch(AmountPat(AMOUNT_LABELS[Least(hits)]), text).group)

\* r"DATE[:\s]+(\d{1,2}/\d{1,2}/\d{4})", re.IGNORECASE
ReceiptDatePat == Pat(LitI(<<"D","A","T","E">>) \o << Plus(SpaceSet \cup {":"}) >> \o NumDateItems, 3, 7)
\* r"(\d{1,2}/\d{1,2}/\d{4})"
BareDatePat == Pat(NumDateItems, 1, 5)

\* extract_date: [error, date_iso]; error is NoError, DATE_ERROR (no token
\* found) or STRPTIME_ERROR (the token found is no calendar date)
extract_date(text) ==
  LET m1 == ReSearch(ReceiptDatePat, text)
      m == IF m1.found THEN m1 ELSE ReSearch(BareDatePat, text)
  IN IF ~m.found THEN [error |-> DATE_ERROR, date_iso |-> None]
     ELSE IF strptime(m.group) = ValueError
          THEN [error |-> STRPTIME_ERROR, date_iso |-> None]
     ELSE [error |-> NoError, date_iso |-> strftime(strptime(m.group))]

\* `known` of extract_company_from_text: r"\bnorthwest exterminating\b",
\* r"\bnorthwest\b", re.IGNORECASE
KNOWN ==
  << [pat |-> Pat(<< Wb >> \o LitI(<<"n","o","r","t","h","w","e","s","t"," ","e","x","t","e","r","m","i","n","a","t","i","n","g">>) \o << Wb >>, 1, 1),
      name |-> <<"N","o","r","t","h","w","e","s","t"," ","E","x","t","e","r","m","i","n","a","t","i","n","g">>],
     [pat |-> Pat(<< Wb >> \o LitI(<<"n","o","r","t","h","w","e","s","t">>) \o << Wb >>, 1, 1),
      name |-> <<"N","o","r","t","h","w","e","s","t">>] >>

skip_exact ==
  { <<"p","a","y","m","e","n","t">>, <<"r","e","c","e","i","p","t">>, <<"p","a","y","m","e","n","t"," ","r","e","c","e","i","p","t">>, <<"c","o","n","f","i","r","m","a","t","i","o","n">>,
    <<"a","m","o","u","n","t">>, <<"d","a","t","e">>, <<"c","r","e","d","i","t"," ","c","a","r","d">>, <<"n","a","m","e"," ","o","n"," ","c","a","r","d">> }

skip_labels ==
  { <<"p","a","y","m","e","n","t"," ","r","e","c","e","i","p","t">>, <<"c","o","n","f","i","r","m","a","t","i","o","n"," ","n","u","m","b","e","r">>, <<"p","a","y","m","e","n","t"," ","a","m","o","u","n","t">>,
    <<"c","r","e","d","i","t"," ","c","a","r","d">>, <<"n","a","m","e"," ","o","n"," ","c","a","r","d">>, <<"d","a","t","e"," ">> }

\* lines[:10]
TOP_LINES == 10

\* re.sub(r"\s+", " ", ln): a run of spaces becomes one " "
collapse(s) ==
  LET marked == [i \in 1..Len(s) |->
                   IF s[i] \notin SpaceSet THEN s[i]
                   ELSE IF i > 1 /\ s[i - 1] \in SpaceSet THEN "" ELSE " "]
  IN SelectSeq(marked, LAMBDA c : c # "")

\* r"^[A-Z ]+\d+$"
LabelDigitsPat == Pat(<< Plus(UpperSet \cup {" "}), Plus(DigitSet), Eos >>, 1, 1)
\* r"[\d\s\-#]+", for re.fullmatch
CodePat == Pat(<< Plus(DigitSet \cup SpaceSet \cup {"-", "#"}), Eos >>, 1, 1)

\* whether the generic scan passes over the line
skipped(norm) ==
  \/ norm = << >>
  \/ lower(norm) \in skip_exact
  \/ \E label \in skip_labels : contains(lower(norm), label)
  \/ ReMatch(LabelDigitsPat, norm).found
  \/ ReMatch(CodePat, norm).found

\* extract_company_from_text: a known name, else the first line of the top
\* band the scan does not pass over, else "Northwest"
extract_company_from_text(text) ==
  LET hits == { i \in 1..Len(KNOWN) : ReSearch(KNOWN[i].pat, text).found }
      lines == StrippedLines(text)
      top == SubSeq(lines, 1, IF Len(lines) < TOP_LINES THEN Len(lines) ELSE TOP_LINES)
      norms == [i \in 1..Len(top) |-> strip(collapse(top[i]))]
      ok == { i \in 1..Len(norms) : ~skipped(norms[i]) }
  IN IF hits # {} THEN KNOWN[Least(hits)].name
     ELSE IF ok # {} THEN norms[Least(ok)]
     ELSE <<"N","o","r","t","h","w","e","s","t">>

\* extract_company_from_logo_ocr, given what rendering and recognition of
\* the top quarter of page 1 produce: an exception, no image, or a text
extract_company_from_logo_ocr(ocr) ==
  IF ocr.raises \/ ocr.no_images THEN Unknown
  ELSE IF ReSearch(Pat(LitI(<<"n","o","r","t","h","w","e","s","t"," ","e","x","t","e","r","m","i","n","a","t","i","n","g">>), 1, 1), ocr.text).found
       THEN <<"N","o","r","t","h","w","e","s","t"," ","E","x","t","e","r","m","i","n","a","t","i","n","g">>
  ELSE IF ReSearch(Pat(LitI(<<"n","o","r","t","h","w","e","s","t">>), 1, 1), ocr.text).found
       THEN <<"N","o","r","t","h","w","e","s","t">>
  ELSE Unknown

\* extract_company: [company, ocr_called]
extract_company(text, ocr) ==
  IF extract_company_from_text(text) # Unknown
  THEN [company |-> extract_company_from_text(text), ocr_called |-> FALSE]
  ELSE [company |-> extract_company_from_logo_ocr(ocr), ocr_called |-> TRUE]

\* re.sub(r"[^A-Za-z0-9]", "", company) or "Unknown"
sanitize_company(company) ==
  LET cleaned == SelectSeq(company, LAMBDA c : c \in AlnumSet)
  IN IF cleaned = << >> THEN Unknown ELSE cleaned

DEFAULT_EXT == <<".","p","d","f">>

\* new_name of main
receipt_new_name(pdf_path, date_iso, company_for_file) ==
  LET ext == splitext(basename(pdf_path))[2]
  IN date_iso \o <<"-">> \o company_for_file
       \o (IF ext = << >> THEN DEFAULT_EXT ELSE ext)

(* ============================== the documents ========================== *)

\* text lines as the text layer of a PDF gives them (page.extract_text())
InvoiceLines ==
  << <<"M","E","R","I","W","E","T","H","E","R"," ","P","e","s","t"," ","&"," ","W","i","l","d","l","i","f","e">>,
     <<"I","N","V","O","I","C","E"," ","#","5","2","3","5","9">>,
     <<" ","S","e","r","v","i","c","e"," ","D","a","t","e"," ">>,
     <<"O","c","t","o","b","e","r"," ","1",","," ","2","0","2","5"," "," "," ","O","c","t","o","b","e","r"," ","1",","," ","2","0","2","5">>,
     <<"D","A","T","E"," ","0","9","/","2","2","/","2","0","2","5">>,
     <<"S","u","b","t","o","t","a","l"," ","$","1",",","1","8","4",".","5","0">>,
     <<"D","A","T","E"," ","1","3","/","4","5","/","2","0","2","5">>,
     <<"A","/","C"," ","R","e","f"," ","#","1","2","3","4","5">> >>

ReceiptLines ==
  << <<"P","A","Y","M","E","N","T"," ","A","M","O","U","N","T"," ","$","1",",","2","3","4",".","5","0">>,
     <<"D","A","T","E",":"," ","1","3","/","4","5","/","2","0","2","5">>,
     <<"D","A","T","E"," ","0","9","/","2","2","/","2","0","2","5">>,
     <<"P","a","i","d"," ","0","1","/","0","2","/","2","0","2","5">>,
     <<"N","o","r","t","h","w","e","s","t"," ","E","x","t","e","r","m","i","n","a","t","i","n","g",","," ","I","n","c",".">>,
     <<"T","O","T","A","L"," ","$","8","8",".","8","8">>,
     <<"C","O","N","F","I","R","M","A","T","I","O","N"," ","N","U","M","B","E","R"," ","1","9","2","1">> >>

\* the pdf argument of the command line
Paths == { <<"/","i","n","/","a",".","P","D","F">>, <<"s","c","a","n">> }

\* the working directory of the receipt script
Cwd == <<"/","w">>

\* no page image: convert_from_path returns an empty list
NoImages == [raises |-> FALSE, no_images |-> TRUE, text |-> << >>]

\* what rendering page 1 and recognising its top quarter can produce
OcrOutcomes ==
  { [raises |-> TRUE, no_images |-> FALSE, text |-> << >>],
    NoImages,
    [raises |-> FALSE, no_images |-> FALSE, text |-> << >>],
    [raises |-> FALSE, no_images |-> FALSE, text |-> <<"N","o","r","t","h","w","e","s","t"," ","E","x","t","e","r","m","i","n","a","t","i","n","g"," ","P","e","s","t"," ","C","o","n","t","r","o","l">>],
    [raises |-> FALSE, no_images |-> FALSE, text |-> <<"N","O","R","T","H","W","E","S","T">>] }

\* a document has at most this many text lines
MaxInvoiceLines == 4
MaxReceiptLines == 3

\* documents: sequences of distinct lines, by their index
Docs(k, max) ==
  { s \in UNION { [1..n -> 1..k] : n \in 0..max } :
      \A i, j \in DOMAIN s : i # j => s[i] # s[j] }

InvoiceFacts == [j \in 1..Len(InvoiceLines) |-> LineFacts(strip(InvoiceLines[j]))]

\* lines = [ln.strip() for ln in text.splitlines() if ln.strip()], each
\* with what extract_invoice_fields computes from it
InvoiceLinesOf(d) ==
  LET kept == SelectSeq(d, LAMBDA j : strip(InvoiceLines[j]) # << >>)
  IN [i \in 1..Len(kept) |-> InvoiceFacts[kept[i]]]

\* extract_text_with_pdfplumber: "\n".join(parts)
ReceiptText(d) == Join([i \in 1..Len(d) |-> ReceiptLines[d[i]]], << "\n" >>)

\* os.path.abspath
abspath(p) == IF p # << >> /\ p[1] = "/" THEN p ELSE join(Cwd, p)

(* ================================ the state ============================ *)

VARIABLES
  family,      \* "invoice" or "receipt": which script runs
  pdf_path,    \* the path the script works with
  isfile,      \* whether pdf_path names a file
  doc,         \* the text lines of the file
  pc,          \* where the script is
  data,        \* the fields extracted so far
  new_name,    \* the synthesized filename
  fs,          \* the path the file has on disk
  renames,     \* os.rename calls made
  error,       \* the message of the exception that ended the run
  ocr_calls,   \* extract_company_from_logo_ocr calls made
  ocr          \* what rendering and recognising page 1 of the file produces,
               \* from the step that may ask for it on

vars == << family, pdf_path, isfile, doc, pc, data, new_name, fs, renames, error, ocr_calls, ocr >>

InvoiceData0 ==
  [company_name |-> None, service_date |-> None, invoice_number |-> None,
   amount |-> None, short_company |-> None]

ReceiptData0 ==
  [amount |-> None, date_iso |-> None, company |-> None, company_for_file |-> None]

Init ==
  /\ family \in {"invoice", "receipt"}
  /\ \E p \in Paths : pdf_path = IF family = "receipt" THEN abspath(p) ELSE p
  /\ isfile \in BOOLEAN
  /\ doc \in IF family = "invoice" THEN Docs(Len(InvoiceLines), MaxInvoiceLines)
             ELSE Docs(Len(ReceiptLines), MaxReceiptLines)
  /\ ~isfile => doc = << >>
  /\ pc = "start"
  /\ data = IF family = "invoice" THEN InvoiceData0 ELSE ReceiptData0
  /\ new_name = None
  /\ fs = IF isfile THEN pdf_path ELSE None
  /\ renames = 0
  /\ error = NoError
  /\ ocr_calls = 0
  /\ ocr = NoImages

Fail(msg) ==
  /\ pc' = "failed"
  /\ error' = msg

(* ------------------------------ invoice script ------------------------- *)

\* data = extract_invoice_fields(pdf_path)
ExtractInvoiceFields ==
  /\ family = "invoice" /\ pc = "start"
  /\ LET r == IF isfile THEN extract_invoice_fields(InvoiceLinesOf(doc))
              ELSE [error |-> "FileNotFoundError"]
     IN IF r.error # NoError
        THEN Fail(r.error) /\ UNCHANGED data
        ELSE /\ pc' = "extracted"
             /\ data' = [company_name |-> r.company_name, service_date |-> r.service_date,
                         invoice_number |-> r.invoice_number, amount |-> r.amount,
                         short_company |-> None]
             /\ UNCHANGED error
  /\ UNCHANGED << family, pdf_path, isfile, doc, new_name, fs, renames, ocr_calls, ocr >>

\* short_company = normalize_company_name(...); new_name = build_new_filename(...)
BuildNewFilename ==
  /\ family = "invoice" /\ pc = "extracted"
  /\ LET short_company == normalize_company_name(data.company_name)
     IN IF short_company = IndexError
        THEN Fail("IndexError") /\ UNCHANGED << data, new_name >>
        ELSE /\ pc' = "named"
             /\ data' = [data EXCEPT !.short_company = short_company]
             /\ new_name' = build_new_filename(pdf_path, data.service_date, short_company,
                              IF data.invoice_number = None THEN << >>
                              ELSE data.invoice_number)
             /\ UNCHANGED error
  /\ UNCHANGED << family, pdf_path, isfile, doc, fs, renames, ocr_calls, ocr >>

\* rename=True: os.rename(pdf_path, os.path.join(folder, new_name))
InvoiceRename ==
  /\ family = "invoice" /\ pc = "named"
  /\ fs' = join(dirname(pdf_path), new_name)
  /\ renames' = renames + 1
  /\ pc' = "done"
  /\ UNCHANGED << family, pdf_path, isfile, doc, data, new_name, error, ocr_calls, ocr >>

\* rename=False (--dry-run): "Would rename to:"
InvoiceDryRun ==
  /\ family = "invoice" /\ pc = "named"
  /\ pc' = "dry"
  /\ UNCHANGED << family, pdf_path, isfile, doc, data, new_name, fs, renames, error, ocr_calls, ocr >>

(* ------------------------------ receipt script ------------------------- *)

\* os.path.isfile(pdf_path), then text = extract_text_with_pdfplumber(pdf_path)
ReceiptReadText ==
  /\ family = "receipt" /\ pc = "start"
  /\ IF isfile THEN pc' = "amount" /\ UNCHANGED error ELSE Fail(FILE_ERROR)
  /\ UNCHANGED << family, pdf_path, isfile, doc, data, new_name, fs, renames, ocr_calls, ocr >>

\* amount = extract_amount(text)
ReceiptExtractAmount ==
  /\ family = "receipt" /\ pc = "amount"
  /\ LET amount == extract_amount(ReceiptText(doc))
     IN IF amount = ValueError
        THEN Fail(AMOUNT_ERROR) /\ UNCHANGED data
        ELSE pc' = "date" /\ data' = [data EXCEPT !.amount = amount] /\ UNCHANGED error
  /\ UNCHANGED << family, pdf_path, isfile, doc, new_name, fs, renames, ocr_calls, ocr >>

\* main with the rename moved before the date is extracted
ReceiptExtractDateAfterRename ==
  /\ family = "receipt" /\ pc = "date"
  /\ LET r == extract_date(ReceiptText(doc))
     IN IF r.error # NoError
        THEN /\ Fail(r.error) /\ UNCHANGED data
             /\ fs' = join(dirname(pdf_path), <<"r","e","c","e","i","p","t",".","p","d","f">>)
             /\ renames' = renames + 1
        ELSE /\ pc' = "company" /\ data' = [data EXCEPT !.date_iso = r.date_iso]
             /\ UNCHANGED << error, fs, renames >>
  /\ UNCHANGED << family, pdf_path, isfile, doc, new_name, ocr_calls, ocr >>

\* date_iso = extract_date(text)
ReceiptExtractDate ==
  /\ family = "receipt" /\ pc = "date"
  /\ LET r == extract_date(ReceiptText(doc))
     IN IF r.error # NoError
        THEN Fail(r.error) /\ UNCHANGED data
        ELSE pc' = "company" /\ data' = [data EXCEPT !.date_iso = r.date_iso]
             /\ UNCHANGED error
  /\ UNCHANGED << family, pdf_path, isfile, doc, new_name, fs, renames, ocr_calls, ocr >>

\* company = extract_company(text, pdf_path); company_for_file = sanitize_company(company)
ReceiptExtractCompany ==
  /\ family = "receipt" /\ pc = "company"
  /\ ocr' \in OcrOutcomes
  /\ LET r == extract_company(ReceiptText(doc), ocr')
     IN /\ data' = [data EXCEPT !.company = r.company,
                                !.company_for_file = sanitize_company(r.company)]
        /\ ocr_calls' = IF r.ocr_called THEN ocr_calls + 1 ELSE ocr_calls
  /\ pc' = "rename"
  /\ UNCHANGED << family, pdf_path, isfile, doc, new_name, fs, renames, error >>

\* new_name, new_path, os.rename(pdf_path, new_path)
ReceiptRename ==
  /\ family = "receipt" /\ pc = "rename"
  /\ new_name' = receipt_new_name(pdf_path, data.date_iso, data.company_for_file)
  /\ fs' = join(dirname(pdf_path), new_name')
  /\ renames' = renames + 1
  /\ pc' = "done"
  /\ UNCHANGED << family, pdf_path, isfile, doc, data, error, ocr_calls, ocr >>

Next ==
  \/ ExtractInvoiceFields
  \/ BuildNewFilename
  \/ InvoiceRename
  \/ InvoiceDryRun
  \/ ReceiptReadText
  \/ ReceiptExtractAmount
  \/ ReceiptExtractDate
  \/ ReceiptExtractCompany
  \/ ReceiptRename

Spec == Init /\ [][Next]_vars

(* ---------------------- normalize_company_name on its own -------------- *)

\* names normalize_company_name is called with: no name, the empty name, the
\* invoice lines in their own, upper and lower case, and the tails of the lines
VendorStrings ==
  LET ls == { strip(InvoiceLines[j]) : j \in 1..Len(InvoiceLines) }
  IN {None, << >>}
       \cup ls \cup { upper(l) : l \in ls } \cup { lower(l) : l \in ls }
       \cup UNION { { strip(SubSeq(l, i, Len(l))) : i \in 1..Len(l) } : l \in ls }

InitNormalize ==
  /\ family = "normalize"
  /\ data \in { [name |-> n, short |-> None] : n \in VendorStrings }
  /\ pc = "start"
  /\ pdf_path = << >> /\ isfile = FALSE /\ doc = << >>
  /\ new_name = None /\ fs = None /\ renames = 0
  /\ error = NoError /\ ocr_calls = 0 /\ ocr = NoImages

\* short = normalize_company_name(name)
NormalizeCompanyName ==
  /\ family = "normalize" /\ pc = "start"
  /\ data' = [data EXCEPT !.short = normalize_company_name(data.name)]
  /\ pc' = "done"
  /\ UNCHANGED << family, pdf_path, isfile, doc, new_name, fs, renames, error, ocr_calls, ocr >>

NextNormalize == NormalizeCompanyName

SpecNormalize == InitNormalize /\ [][NextNormalize]_vars

(* ================================ the claims =========================== *)

\* C1: when a required field cannot be resolved (the date in both families,
\* the amount for receipts), the run ends in an error whose message names
\* that field ("Could not find service date", "Could not find date ...",
\* strptime's "time data ... does not match format" for a date token that is
\* no calendar date, "Could not find payment amount ..."), no rename is
\* made, in that step or any later one, and the file keeps its name; and a
\* rename is only made with the required fields resolved.
C1_FailureNamesFieldAndNeverRenames ==
  /\ (isfile /\ error # NoError) =>
       /\ pc = "failed"
       /\ renames = 0 /\ fs = pdf_path /\ new_name = None
       /\ IF family = "invoice"
          THEN /\ error \in {SERVICE_DATE_ERROR, STRPTIME_ERROR}
               /\ ~IsDate(find_service_date(InvoiceLinesOf(doc)))
          ELSE \/ /\ error = AMOUNT_ERROR
                  /\ extract_amount(ReceiptText(doc)) = ValueError
               \/ /\ error \in {DATE_ERROR, STRPTIME_ERROR}
                  /\ extract_date(ReceiptText(doc)).date_iso = None
  /\ (family = "invoice" /\ (renames > 0 \/ pc \notin {"start", "failed"})) =>
       IsDate(find_service_date(InvoiceLinesOf(doc)))
  /\ (family = "receipt" /\ (renames > 0 \/ pc \notin {"start", "amount", "date", "failed"})) =>
       /\ extract_amount(ReceiptText(doc)) # ValueError
       /\ extract_date(ReceiptText(doc)).date_iso # None

\* C1, its case: a receipt whose amount is found and whose date is not
C1_ReceiptFailedOnDate ==
  /\ family = "receipt" /\ pc = "failed" /\ error = DATE_ERROR
  /\ data.amount # None /\ renames = 0 /\ fs = pdf_path

\* C2, as stated: in every completed record of either family the date and
\* the amount are both present.
C2_DateAndAmountPresent ==
  /\ (family = "invoice" /\ pc \in {"extracted", "named", "done", "dry"}) =>
       data.service_date # None /\ data.amount # None
  /\ (family = "receipt" /\ pc = "done") =>
       data.date_iso # None /\ data.amount # None

\* C2, amended: in every completed record the date is present; the amount is
\* present in every receipt record; an invoice record has an amount exactly
\* when some line of the invoice matches the Subtotal pattern.
C2_DatePresentAmountOnlyForReceipts ==
  /\ (family = "invoice" /\ pc \in {"extracted", "named", "done", "dry"}) =>
       /\ IsDate(data.service_date)
       /\ (data.amount = None) <=> (\A i \in DOMAIN doc : ~InvoiceFacts[doc[i]].amt_m.found)
  /\ (family = "receipt" /\ pc = "done") =>
       data.date_iso # None /\ data.amount \notin {None, ValueError}

\* C2, its case: an invoice renamed without an amount
C2_InvoiceRenamedWithoutAmount ==
  family = "invoice" /\ pc = "done" /\ data.amount = None /\ IsDate(data.service_date)

\* C3: when an earlier date strategy finds a token that cannot be parsed and
\* a later date strategy would succeed, the run does not fail and returns the
\* later strategy's date.  Invoices: the line after "Service Date" does not
\* parse, a DATE mm/dd/yyyy line does.  Receipts: the DATE-labelled token is
\* no calendar date, the first bare mm/dd/yyyy token of the text is one.
C3_LaterDateStrategyRecovers ==
  /\ (family = "invoice" /\ isfile /\ pc # "start") =>
       LET lines == InvoiceLinesOf(doc)
           sd == { i \in 1..Len(lines) : lines[i].service }
       IN (/\ sd # {} /\ Least(sd) < Len(lines)
           /\ ~IsDate(lines[Least(sd) + 1].parsed)
           /\ IsDate(labelled_date(lines)))
          => pc # "failed" /\ data.service_date = labelled_date(lines)
  /\ (family = "receipt" /\ isfile /\ pc \notin {"start", "amount", "date"}) =>
       LET text == ReceiptText(doc)
           m1 == ReSearch(ReceiptDatePat, text)
           m2 == ReSearch(BareDatePat, text)
       IN (/\ extract_amount(text) # ValueError
           /\ m1.found /\ strptime(m1.group) = ValueError
           /\ m2.found /\ IsDate(strptime(m2.group)))
          => pc # "failed" /\ data.date_iso = strftime(strptime(m2.group))

\* C4: for a receipt whose text has no recognizable vendor (no known vendor
\* pattern, no acceptable line among the first 10), the OCR fallback is
\* invoked; OCR text containing "Northwest Exterminating" gives the vendor
\* "Northwest Exterminating" and the company token "NorthwestExterminating";
\* OCR failing or finding nothing gives the vendor "Unknown".
C4_OcrFallbackDecidesVendor ==
  (family = "receipt" /\ pc \in {"rename", "done"}) =>
    LET text == ReceiptText(doc)
        lines == StrippedLines(text)
        top == SubSeq(lines, 1, IF Len(lines) < TOP_LINES THEN Len(lines) ELSE TOP_LINES)
        no_vendor ==
          /\ \A i \in 1..Len(KNOWN) : ~ReSearch(KNOWN[i].pat, text).found
          /\ \A i \in 1..Len(top) : skipped(strip(collapse(top[i])))
        found_nothing == ocr.raises \/ ocr.no_images \/ strip(ocr.text) = << >>
    IN no_vendor =>
         /\ ocr_calls = 1
         /\ (~found_nothing /\ contains(ocr.text, <<"N","o","r","t","h","w","e","s","t"," ","E","x","t","e","r","m","i","n","a","t","i","n","g">>)) =>
              /\ data.company = <<"N","o","r","t","h","w","e","s","t"," ","E","x","t","e","r","m","i","n","a","t","i","n","g">>
              /\ data.company_for_file = <<"N","o","r","t","h","w","e","s","t","E","x","t","e","r","m","i","n","a","t","i","n","g">>
         /\ found_nothing => data.company = Unknown

\* C5: normalize_company_name gives "Unknown" for an empty or absent name;
\* for any other name the short name of the first entry of
\* COMPANY_NORMALIZATION, in declaration order, whose key is a substring of
\* the lower-cased name; and with no such entry the first
\* whitespace-delimited token of the trimmed name.
C5_NormalizeCompanyName ==
  (family = "normalize" /\ pc = "done") =>
    LET name == data.name
        short == data.short
        match(i) == contains(lower(name), COMPANY_NORMALIZATION[i].key)
        t == strip(name)
    IN IF name = None \/ name = << >> THEN short = Unknown
       ELSE /\ \A i \in 1..Len(COMPANY_NORMALIZATION) :
                 (match(i) /\ \A j \in 1..(i - 1) : ~match(j))
                   => short = COMPANY_NORMALIZATION[i].short
            /\ (\A i \in 1..Len(COMPANY_NORMALIZATION) : ~match(i)) =>
                 \E n \in 1..Len(t) :
                    /\ short = SubSeq(t, 1, n)
                    /\ \A k \in 1..n : t[k] \notin SpaceSet
                    /\ n = Len(t) \/ t[n + 1] \in SpaceSet

\* C5, its case: a name in capitals that every key matches once lower-cased
C5_CapitalsMatchFirstAlias ==
  /\ family = "normalize" /\ pc = "done"
  /\ data.name = <<"M","E","R","I","W","E","T","H","E","R"," ","P","e","s","t"," ","&"," ","W","i","l","d","l","i","f","e">>
  /\ data.short = <<"M","e","r","i","w","e","t","h","e","r">>

\* C6: in both families an amount returned by the amount extractor has its
\* thousands separators removed: it is digits, one decimal point and exactly
\* two fractional digits.
C6_AmountHasNoSeparator ==
  (family \in {"invoice", "receipt"} /\ data.amount \notin {None, ValueError}) =>
    LET a == data.amount
    IN /\ Len(a) >= 4
       /\ a[Len(a) - 2] = "."
       /\ \A i \in 1..Len(a) : i # Len(a) - 2 => a[i] \in DigitSet

\* C7: in both families the synthesized filename ends with the extension of
\* the original file, and with ".pdf" when the source path has none.
C7_ExtensionKeptOrDefaulted ==
  (family \in {"invoice", "receipt"} /\ new_name # None) =>
    LET ext == splitext(basename(pdf_path))[2]
        want == IF ext = << >> THEN <<".","p","d","f">> ELSE ext
    IN /\ Len(new_name) >= Len(want)
       /\ SubSeq(new_name, Len(new_name) - Len(want) + 1, Len(new_name)) = want

\* C8: an invoice whose date is resolved and none of whose lines matches
\* INVOICE #token or a bare # with four or more digits does not fail: its
\* filename is date-vendor-<base name of the original file><ext>.
C8_MissingIdentifierUsesBaseName ==
  (/\ family = "invoice" /\ isfile /\ pc # "start"
   /\ \A i \in DOMAIN doc :
         ~InvoiceFacts[doc[i]].inv_m.found /\ ~InvoiceFacts[doc[i]].num_m.found
   /\ IsDate(find_service_date(InvoiceLinesOf(doc)))) =>
    /\ pc # "failed" /\ error = NoError
    /\ data.invoice_number = None
    /\ new_name # None =>
         new_name = strftime(data.service_date) \o <<"-">>
                      \o replace(strip(data.short_company), "/", "-") \o <<"-">>
                      \o splitext(basename(pdf_path))[1]
                      \o splitext(basename(pdf_path))[2]

\* C8, its case: an invoice without identifier, renamed after its base name
C8_RenamedAfterBaseName ==
  /\ family = "invoice" /\ pc = "done" /\ data.invoice_number = None
  /\ pdf_path = <<"/","i","n","/","a",".","P","D","F">>
  /\ new_name = <<"2","0","2","5","-","0","9","-","2","2","-","M","e","r","i","w","e","t","h","e","r","-","a",".","P","D","F">>
  /\ fs = <<"/","i","n","/","2","0","2","5","-","0","9","-","2","2","-","M","e","r","i","w","e","t","h","e","r","-","a",".","P","D","F">>

\* C9, as stated: when an invoice has a line DATE mm/dd/yyyy and a Subtotal
\* line, the returned record's date is that labelled date and its amount
\* that subtotal token, whatever other lines the text holds.
C9_LabelledDateAndSubtotalWin ==
  (family = "invoice" /\ pc \in {"extracted", "named", "done", "dry"}) =>
    LET dated == { i \in DOMAIN doc : InvoiceFacts[doc[i]].date_m.found }
        priced == { i \in DOMAIN doc : InvoiceFacts[doc[i]].amt_m.found }
    IN (dated # {} /\ priced # {}) =>
         /\ \E i \in dated :
               data.service_date = strptime(InvoiceFacts[doc[i]].date_m.group)
         /\ \E i \in priced : data.amount = InvoiceFacts[doc[i]].amt_m.group

\* C9, amended: when an invoice has a line DATE mm/dd/yyyy and a Subtotal
\* line, and the line after the first line holding "Service Date" (if there
\* is one) does not parse as a date, the returned record's date is the date
\* of the first DATE mm/dd/yyyy line and its amount the token of the first
\* Subtotal line, whatever other lines the text holds.
C9_LabelledDateWinsWithoutLookahead ==
  (family = "invoice" /\ pc \in {"extracted", "named", "done", "dry"}) =>
    LET dated == { i \in DOMAIN doc : InvoiceFacts[doc[i]].date_m.found }
        priced == { i \in DOMAIN doc : InvoiceFacts[doc[i]].amt_m.found }
        marked == { i \in DOMAIN doc : InvoiceFacts[doc[i]].service }
        looked == marked # {} /\ Least(marked) < Len(doc)
                    /\ IsDate(InvoiceFacts[doc[Least(marked) + 1]].parsed)
    IN (dated # {} /\ priced # {} /\ ~looked) =>
         /\ data.service_date = strptime(InvoiceFacts[doc[Least(dated)]].date_m.group)
         /\ data.amount = InvoiceFacts[doc[Least(priced)]].amt_m.group

\* C9, its case: the labelled date returned although a "Service Date" line,
\* followed by a line that is no date, comes first
C9_ServiceDateMarkerWithoutDate ==
  /\ family = "invoice" /\ pc = "extracted"
  /\ Len(doc) >= 3
  /\ InvoiceFacts[doc[1]].service /\ ~IsDate(InvoiceFacts[doc[2]].parsed)
  /\ \E i \in DOMAIN doc : InvoiceFacts[doc[i]].amt_m.found
  /\ data.service_date = Date(2025, 9, 22)
  /\ data.amount = <<"1",",","1","8","4",".","5","0">>

\* C10: the synthesized filename of a renamed document holds no "/", so the
\* file stays in its directory under the new name; the company token of a
\* receipt is non-empty and alphanumeric.
C10_NewNameStaysInDirectory ==
  /\ (family \in {"invoice", "receipt"} /\ new_name # None) =>
       \A i \in 1..Len(new_name) : new_name[i] # "/"
  /\ (family \in {"invoice", "receipt"} /\ renames > 0) =>
       /\ dirname(fs) = dirname(pdf_path)
       /\ basename(fs) = new_name
  /\ (family = "receipt" /\ data.company_for_file # None) =>
       /\ data.company_for_file # << >>
       /\ \A i \in 1..Len(data.company_for_file) : data.company_for_file[i] \in AlnumSet

\* C10, its case: a vendor name with a "/" in it, renamed
C10_SlashInVendorReplaced ==
  /\ family = "invoice" /\ pc = "done" /\ renames = 1
  /\ data.short_company = <<"A","/","C">>
  /\ new_name = <<"2","0","2","5","-","0","9","-","2","2","-","A","-","C","-","I","n","v","o","i","c","e"," ","#","1","2","3","4","5",".","P","D","F">>
  /\ fs = <<"/","i","n","/","2","0","2","5","-","0","9","-","2","2","-","A","-","C","-","I","n","v","o","i","c","e"," ","#","1","2","3","4","5",".","P","D","F">>

====
